---- MODULE Spec2Model ----
(***************************************************************************)
(* Credential and secret management of the import-export CLI.              *)
(*                                                                         *)
(*  - the credential resolver: ExecutePreCommandWithBasicAuth and          *)
(*    ExecutePreCommandWithOAuth, with GetClientIDSecret (dynamic client   *)
(*    registration) and GetOAuthTokens (password grant);                   *)
(*  - the secret encryption pipeline: EncryptSecrets (mi/utils/utils.go).  *)
(*                                                                         *)
(* Strings are sequences of one-character strings, so that TrimSpace and   *)
(* the "key:secret" concatenation are computed, not assumed.  The empty    *)
(* string is << >>.  Environment names, endpoints and log labels, which    *)
(* the code only compares or passes on, are TLA+ strings.                  *)
(***************************************************************************)
EXTENDS Integers, Sequences, FiniteSets, TLC

VARIABLES
  envKeys,        \* env_keys_all.yaml: environment name -> EnvKeys record
  invocations,    \* number of commands started so far
  pc,             \* position of the running command
  mode,           \* "basic" | "oauth" | "none"
  environment,    \* argument of the running command
  flagUsername,   \* argument: --username, possibly empty
  flagPassword,   \* argument: --password, possibly empty
  username,       \* local of the running command
  password,       \* local of the running command
  clientID,       \* local of the running command
  clientSecret,   \* local of the running command
  regErr,         \* local err after GetClientIDSecret
  prompts,        \* prompts shown by the running command, in order
  calls,          \* requests and store writes of the running command, in order
  result,         \* what the command returned to its caller
  exitReason,     \* why the process exited, "" when it did not
  registered,     \* environments whose registration completed successfully
  keysAtStart,    \* the credential file as the running command found it
  sPc,            \* EncryptSecrets: position
  sConfig,        \* EncryptSecrets: SecretConfig, and the files it names
  sFunc,          \* EncryptSecrets: the encryption function chosen
  sPlain,         \* EncryptSecrets: plainTextSecrets
  sTodo,          \* encrypt: aliases the range loop has not visited yet
  sCrypto,        \* EncryptSecrets: calls of the encryption function, in order
  sEncrypted,     \* EncryptSecrets: encryptedSecrets
  sSinks,         \* EncryptSecrets: sinks written, in order
  sResult         \* EncryptSecrets: returned error, "nil" or a message

resolverVars == <<envKeys, invocations, pc, mode, environment, flagUsername,
                  flagPassword, username, password, clientID, clientSecret,
                  regErr, prompts, calls, result, exitReason, registered,
                  keysAtStart>>
secretVars == <<sPc, sConfig, sFunc, sPlain, sTodo, sCrypto, sEncrypted, sSinks, sResult>>
vars == <<resolverVars, secretVars>>

----------------------------------------------------------------------------
\* Bounds of the model.

\* Commands run one after the other against the same credential file.
MaxInvocations == 2

----------------------------------------------------------------------------
\* Strings.

Empty == << >>

IsSpace(c) == c = " "

RECURSIVE TrimLeft(_)
TrimLeft(s) == IF s # Empty /\ IsSpace(Head(s)) THEN TrimLeft(Tail(s)) ELSE s

RECURSIVE TrimRight(_)
TrimRight(s) ==
  IF s # Empty /\ IsSpace(s[Len(s)]) THEN TrimRight(SubSeq(s, 1, Len(s) - 1))
  ELSE s

\* strings.TrimSpace
TrimSpace(s) == TrimRight(TrimLeft(s))

\* base64.StdEncoding.EncodeToString: injective, and never the text itself.
Base64(line) == <<"b64(">> \o line \o <<")">>

\* GetBase64EncodedCredentials: base64Encode(key:secret)
GetBase64EncodedCredentials(key, secret) == Base64(key \o <<":">> \o secret)

----------------------------------------------------------------------------
\* The main configuration (read only) and the inputs of a command.

MainConfig ==
  [dev  |-> [apim |-> "https://dev/apim",  reg |-> "https://dev/register",
             token |-> "https://dev/token"],
   prod |-> [apim |-> "https://prod/apim", reg |-> "https://prod/register",
             token |-> "https://prod/token"]]

EnvironmentNames == {"", "dev", "prod", "test"}
FlagUsernames == {Empty, <<"a">>, <<"b">>}
FlagPasswords == {Empty, <<"p">>}
TypedUsernames == {<<"a">>, <<" ", "b", " ">>}
TypedPasswords == {<<"p">>, <<"q">>}

EnvExistsInMainConfigFile(env) == env \in DOMAIN MainConfig
GetAPIMEndpointOfEnv(env) == MainConfig[env].apim
GetRegistrationEndpointOfEnv(env) == MainConfig[env].reg
GetTokenEndpointOfEnv(env) == MainConfig[env].token

----------------------------------------------------------------------------
\* The credential file.

EnvExistsInKeysFile(env, keys) == env \in DOMAIN keys
GetUsernameOfEnv(env, keys) == keys[env].username
GetClientIDOfEnv(env, keys) == keys[env].clientID

\* GetMD5Hash: a hash of the text, never the text itself.
GetMD5Hash(text) == <<"md5(">> \o text \o <<")">>

\* Encrypt(key, text): symmetric, not authenticated.  The cipher text is a
\* string like any other, so that a field can be compared with the plain
\* text, the password and the key; neither key nor text holds a "|".
Encrypt(key, text) == <<"aes(">> \o key \o <<"|">> \o text \o <<")">>

\* what a cipher text was made of
SealedAt(cipherText) ==
  IF \E i \in 1..Len(cipherText) : cipherText[i] = "|"
  THEN CHOOSE i \in 1..Len(cipherText) :
          /\ cipherText[i] = "|"
          /\ \A j \in 1..(i - 1) : cipherText[j] # "|"
  ELSE Len(cipherText) + 1
SealedKey(cipherText) == SubSeq(cipherText, 2, SealedAt(cipherText) - 1)
SealedText(cipherText) ==
  SubSeq(cipherText, SealedAt(cipherText) + 1, Len(cipherText) - 1)

\* Decrypt(key, cipherText): the text under the key it was written with,
\* garbage (no error) under any other key.
Decrypt(key, cipherText) ==
  IF SealedKey(cipherText) = key THEN SealedText(cipherText)
  ELSE <<"#">> \o SealedText(cipherText)

GetClientSecretOfEnv(env, pw, keys) ==
  Decrypt(GetMD5Hash(pw), keys[env].clientSecret)

\* AddNewEnvToKeysFile: the record for that environment is appended or replaced.
AddNewEnvToKeysFile(env, rec, keys) ==
  [e \in (DOMAIN keys) \cup {env} |-> IF e = env THEN rec ELSE keys[e]]

NoKeys == [e \in {} |-> 0]

----------------------------------------------------------------------------
\* The terminal: PromptForUsername / PromptForPassword block and return what
\* the operator types.

Prompt(kind, answer) == [kind |-> kind, answer |-> answer]

Resolved(outcome, user, pass, shown) ==
  [outcome |-> outcome, username |-> user, password |-> pass, prompts |-> shown]

----------------------------------------------------------------------------
\* ExecutePreCommandWithBasicAuth, the credential resolution.

\* Faulty variant of BasicAuthCached: with a blank flag username the password
\* is prompted for whatever the flag password, as on first use.
BasicAuthCached_BlankUserPrompts(env, flagUser, flagPass, keys, ansP) ==
  LET user == GetUsernameOfEnv(env, keys) IN
  IF flagUser # Empty
  THEN IF flagUser # user
       THEN Resolved("exit", user, Empty, << >>)
       ELSE IF flagPass = Empty
            THEN Resolved("ok", user, ansP, <<Prompt("password", ansP)>>)
            ELSE Resolved("ok", user, flagPass, << >>)
  ELSE Resolved("ok", user, ansP, <<Prompt("password", ansP)>>)

\* the environment has a record in the credential file
BasicAuthCached(env, flagUser, flagPass, keys, ansP) ==
  LET user == GetUsernameOfEnv(env, keys) IN
  IF flagUser # Empty
  THEN IF flagUser # user
       THEN Resolved("exit", user, Empty, << >>)
       ELSE IF flagPass = Empty
            THEN Resolved("ok", user, ansP, <<Prompt("password", ansP)>>)
            ELSE Resolved("ok", user, flagPass, << >>)
  ELSE IF flagPass # Empty
       THEN Resolved("ok", user, flagPass, << >>)
       ELSE Resolved("ok", user, ansP, <<Prompt("password", ansP)>>)

\* Variant of BasicAuthFresh in which a flag password given without a flag
\* username is used instead of a prompted one.
BasicAuthFresh_FlagPasswordKept(flagUser, flagPass, ansU, ansP) ==
  LET user == IF flagUser # Empty THEN flagUser ELSE TrimSpace(ansU)
      askUser == IF flagUser # Empty THEN << >> ELSE <<Prompt("username", ansU)>>
  IN IF flagPass = Empty
     THEN Resolved("ok", user, ansP, askUser \o <<Prompt("password", ansP)>>)
     ELSE Resolved("ok", user, flagPass, askUser)

\* first use of the environment
BasicAuthFresh(flagUser, flagPass, ansU, ansP) ==
  IF flagUser # Empty
  THEN IF flagPass = Empty
       THEN Resolved("ok", flagUser, ansP, <<Prompt("password", ansP)>>)
       ELSE Resolved("ok", flagUser, flagPass, << >>)
  ELSE Resolved("ok", TrimSpace(ansU), ansP,
                <<Prompt("username", ansU), Prompt("password", ansP)>>)

BasicAuthResolve(env, flagUser, flagPass, keys, ansU, ansP) ==
  IF EnvExistsInMainConfigFile(env)
  THEN IF EnvExistsInKeysFile(env, keys)
       THEN BasicAuthCached(env, flagUser, flagPass, keys, ansP)
       ELSE BasicAuthFresh(flagUser, flagPass, ansU, ansP)
  ELSE Resolved("error", Empty, Empty, << >>)

\* Faulty variant of UnknownEnvironmentError: no error for the empty name.
UnknownEnvironmentError_EmptyNameAccepted(env) ==
  IF env = "" THEN "nil"
  ELSE "Details incorrect/unavailable for environment"

\* the error returned for an environment missing from the main configuration
UnknownEnvironmentError(env) ==
  IF env = "" THEN "no environment specified"
  ELSE "Details incorrect/unavailable for environment"

Returned(value, endpoint, err) ==
  [value |-> value, endpoint |-> endpoint, err |-> err]

NoResult == Returned(Empty, "", "none")

----------------------------------------------------------------------------
\* ExecutePreCommandWithOAuth, the credential resolution.

\* Faulty variant of OAuthCached: the flag username is not compared with the
\* stored one.
OAuthCached_NoComparison(env, flagUser, flagPass, keys, ansP) ==
  LET user == GetUsernameOfEnv(env, keys) IN
  IF flagPass # Empty
  THEN Resolved("ok", user, flagPass, << >>)
  ELSE Resolved("ok", user, ansP, <<Prompt("password", ansP)>>)

OAuthCached(env, flagUser, flagPass, keys, ansP) ==
  LET user == GetUsernameOfEnv(env, keys) IN
  IF flagUser # Empty
  THEN IF flagUser # user
       THEN Resolved("exit", user, Empty, << >>)
       ELSE IF flagPass = Empty
            THEN Resolved("ok", user, ansP, <<Prompt("password", ansP)>>)
            ELSE Resolved("ok", user, flagPass, << >>)
  ELSE IF flagPass # Empty
       THEN Resolved("ok", user, flagPass, << >>)
       ELSE Resolved("ok", user, ansP, <<Prompt("password", ansP)>>)

\* Faulty variant of OAuthFresh: the typed username is used as typed, the
\* white space around it kept.
OAuthFresh_UsernameAsTyped(flagUser, flagPass, ansU, ansP) ==
  IF flagUser # Empty
  THEN IF flagPass = Empty
       THEN Resolved("ok", flagUser, ansP, <<Prompt("password", ansP)>>)
       ELSE Resolved("ok", flagUser, flagPass, << >>)
  ELSE Resolved("ok", ansU, ansP,
                <<Prompt("username", ansU), Prompt("password", ansP)>>)

OAuthFresh(flagUser, flagPass, ansU, ansP) ==
  IF flagUser # Empty
  THEN IF flagPass = Empty
       THEN Resolved("ok", flagUser, ansP, <<Prompt("password", ansP)>>)
       ELSE Resolved("ok", flagUser, flagPass, << >>)
  ELSE Resolved("ok", TrimSpace(ansU), ansP,
                <<Prompt("username", ansU), Prompt("password", ansP)>>)

OAuthResolve(env, flagUser, flagPass, keys, ansU, ansP) ==
  IF EnvExistsInMainConfigFile(env)
  THEN IF EnvExistsInKeysFile(env, keys)
       THEN OAuthCached(env, flagUser, flagPass, keys, ansP)
       ELSE OAuthFresh(flagUser, flagPass, ansU, ansP)
  ELSE Resolved("error", Empty, Empty, << >>)

\* Faulty variant of CachedClientCredentials: the secret is decrypted with
\* the key it was stored under, not with one derived from the password.
CachedClientCredentials_StoredKey(env, pass, keys) ==
  [clientID |-> GetClientIDOfEnv(env, keys),
   clientSecret |-> Decrypt(SealedKey(keys[env].clientSecret),
                           keys[env].clientSecret)]

\* the client credentials of an environment with a record: the identifier as
\* stored, the secret decrypted with the password just resolved
CachedClientCredentials(env, pass, keys) ==
  [clientID |-> GetClientIDOfEnv(env, keys),
   clientSecret |-> GetClientSecretOfEnv(env, pass, keys)]

----------------------------------------------------------------------------
\* The authorization server, reached through InvokePOSTRequest, which
\* returns a response or a transport error.

ServerClientID == <<"i", "d">>
ServerClientSecret == <<"s">>
ServerAccessToken == <<"t">>

\* body: "json" parses into the expected fields, "junk" does not parse
RegistrationResponses ==
  {[err |-> TRUE, status |-> 0, body |-> "none"]}
  \cup [err : {FALSE}, status : {200, 201}, body : {"json", "junk"}]
  \cup [err : {FALSE}, status : {401, 500}, body : {"junk"}]

TokenResponses ==
  {[err |-> TRUE, status |-> 0, body |-> "none"]}
  \cup [err : {FALSE}, status : {200}, body : {"json", "junk"}]
  \cup [err : {FALSE}, status : {201, 401, 500}, body : {"junk"}]

\* HandleErrorAndExit prints the message and ends the process: the command
\* stops at the call and returns nothing to its caller.
HandleErrorAndExit(msg) == [exited |-> TRUE, reason |-> msg]
NoExit == [exited |-> FALSE, reason |-> ""]

Registration(exit, id, secret, err) ==
  [exit |-> exit, clientID |-> id, clientSecret |-> secret, err |-> err]

\* Faulty variant of GetClientIDSecret: 401 is handled like the other
\* unexpected statuses, by a returned error.
GetClientIDSecret_401Returned(resp) ==
  IF resp.err
  THEN Registration(HandleErrorAndExit("Error in connecting."),
                    Empty, Empty, "none")
  ELSE IF (resp.status = 200 \/ resp.status = 201) /\ resp.body = "json"
       THEN Registration(NoExit, ServerClientID, ServerClientSecret, "nil")
       ELSE Registration(NoExit, Empty, Empty, "Request didn't respond 200 OK")

\* GetClientIDSecret, from the response InvokePOSTRequest returned
GetClientIDSecret(resp) ==
  IF resp.err
  THEN Registration(HandleErrorAndExit("Error in connecting."),
                    Empty, Empty, "none")
  ELSE IF resp.status = 200 \/ resp.status = 201
       THEN IF resp.body = "json"
            THEN Registration(NoExit, ServerClientID, ServerClientSecret, "nil")
            ELSE Registration(NoExit, Empty, Empty, "json: cannot unmarshal")
       ELSE IF resp.status = 401
            THEN Registration(
                   HandleErrorAndExit("Incorrect Username/Password combination."),
                   Empty, Empty, "none")
            ELSE Registration(NoExit, Empty, Empty,
                              "Request didn't respond 200 OK")

Tokens(exit, accessToken) == [exit |-> exit, access_token |-> accessToken]

\* Faulty variant of GetOAuthTokens: after a status other than 200 the
\* function returns its nil map instead of ending the process.
GetOAuthTokens_NilReturned(resp) ==
  IF resp.err
  THEN Tokens(HandleErrorAndExit("Unable to Connect."), Empty)
  ELSE IF resp.status = 200 /\ resp.body = "json"
       THEN Tokens(NoExit, ServerAccessToken)
       ELSE Tokens(NoExit, Empty)

\* GetOAuthTokens, from the response InvokePOSTRequest returned
GetOAuthTokens(resp) ==
  IF resp.err
  THEN Tokens(HandleErrorAndExit("Unable to Connect."), Empty)
  ELSE IF resp.status # 200
       THEN Tokens(HandleErrorAndExit("Unable to connect."), Empty)
       ELSE IF resp.body = "json"
            THEN Tokens(NoExit, ServerAccessToken)
            ELSE Tokens(NoExit, Empty)

----------------------------------------------------------------------------
\* The commands.  A command starts when no other is running; the process of
\* the previous one has returned to its caller or exited.

Idle == pc \in {"idle", "returned", "exited"}

EnvKeys(id, encryptedSecret, user) ==
  [clientID |-> id, clientSecret |-> encryptedSecret, username |-> user]

\* ExecutePreCommandWithBasicAuth: no request, no store access but reads.
ExecutePreCommandWithBasicAuth(env, flagUser, flagPass, ansU, ansP) ==
  /\ Idle
  /\ invocations < MaxInvocations
  /\ LET r == BasicAuthResolve(env, flagUser, flagPass, envKeys, ansU, ansP) IN
     /\ username' = r.username
     /\ password' = r.password
     /\ prompts' = r.prompts
     /\ CASE r.outcome = "error" ->
               /\ pc' = "returned"
               /\ result' = Returned(Empty, "", UnknownEnvironmentError(env))
               /\ exitReason' = ""
          [] r.outcome = "exit" ->
               /\ pc' = "exited"
               /\ result' = NoResult
               /\ exitReason' = "CredentialMismatch"
          [] r.outcome = "ok" ->
               /\ pc' = "returned"
               /\ result' = Returned(
                    GetBase64EncodedCredentials(r.username, r.password),
                    GetAPIMEndpointOfEnv(env), "nil")
               /\ exitReason' = ""
  /\ invocations' = invocations + 1
  /\ mode' = "basic"
  /\ environment' = env
  /\ flagUsername' = flagUser
  /\ flagPassword' = flagPass
  /\ clientID' = Empty
  /\ clientSecret' = Empty
  /\ regErr' = "nil"
  /\ calls' = << >>
  /\ keysAtStart' = envKeys
  /\ UNCHANGED <<envKeys, registered, secretVars>>

\* Faulty variant of ExecutePreCommandWithOAuth: the client is registered
\* anew although the environment has a record.
ExecutePreCommandWithOAuth_AlwaysRegisters(env, flagUser, flagPass, ansU, ansP) ==
  /\ Idle
  /\ invocations < MaxInvocations
  /\ LET r == OAuthResolve(env, flagUser, flagPass, envKeys, ansU, ansP) IN
     /\ username' = r.username
     /\ password' = r.password
     /\ prompts' = r.prompts
     /\ CASE r.outcome = "error" ->
               /\ pc' = "returned"
               /\ result' = Returned(Empty, "", UnknownEnvironmentError(env))
               /\ exitReason' = ""
               /\ clientID' = Empty
               /\ clientSecret' = Empty
          [] r.outcome = "exit" ->
               /\ pc' = "exited"
               /\ result' = NoResult
               /\ exitReason' = "CredentialMismatch"
               /\ clientID' = Empty
               /\ clientSecret' = Empty
          [] r.outcome = "ok" /\ EnvExistsInKeysFile(env, envKeys) ->
               /\ pc' = "register"
               /\ result' = NoResult
               /\ exitReason' = ""
               /\ clientID' =
                    CachedClientCredentials(env, r.password, envKeys).clientID
               /\ clientSecret' =
                    CachedClientCredentials(env, r.password, envKeys).clientSecret
          [] r.outcome = "ok" /\ ~EnvExistsInKeysFile(env, envKeys) ->
               /\ pc' = "register"
               /\ result' = NoResult
               /\ exitReason' = ""
               /\ clientID' = Empty
               /\ clientSecret' = Empty
  /\ invocations' = invocations + 1
  /\ mode' = "oauth"
  /\ environment' = env
  /\ flagUsername' = flagUser
  /\ flagPassword' = flagPass
  /\ regErr' = "nil"
  /\ calls' = << >>
  /\ keysAtStart' = envKeys
  /\ UNCHANGED <<envKeys, registered, secretVars>>

\* ExecutePreCommandWithOAuth up to its first request: the registration
\* request on first use, the token request with a cached record.
ExecutePreCommandWithOAuth(env, flagUser, flagPass, ansU, ansP) ==
  /\ Idle
  /\ invocations < MaxInvocations
  /\ LET r == OAuthResolve(env, flagUser, flagPass, envKeys, ansU, ansP) IN
     /\ username' = r.username
     /\ password' = r.password
     /\ prompts' = r.prompts
     /\ CASE r.outcome = "error" ->
               /\ pc' = "returned"
               /\ result' = Returned(Empty, "", UnknownEnvironmentError(env))
               /\ exitReason' = ""
               /\ clientID' = Empty
               /\ clientSecret' = Empty
          [] r.outcome = "exit" ->
               /\ pc' = "exited"
               /\ result' = NoResult
               /\ exitReason' = "CredentialMismatch"
               /\ clientID' = Empty
               /\ clientSecret' = Empty
          [] r.outcome = "ok" /\ EnvExistsInKeysFile(env, envKeys) ->
               /\ pc' = "token"
               /\ result' = NoResult
               /\ exitReason' = ""
               /\ clientID' =
                    CachedClientCredentials(env, r.password, envKeys).clientID
               /\ clientSecret' =
                    CachedClientCredentials(env, r.password, envKeys).clientSecret
          [] r.outcome = "ok" /\ ~EnvExistsInKeysFile(env, envKeys) ->
               /\ pc' = "register"
               /\ result' = NoResult
               /\ exitReason' = ""
               /\ clientID' = Empty
               /\ clientSecret' = Empty
  /\ invocations' = invocations + 1
  /\ mode' = "oauth"
  /\ environment' = env
  /\ flagUsername' = flagUser
  /\ flagPassword' = flagPass
  /\ regErr' = "nil"
  /\ calls' = << >>
  /\ keysAtStart' = envKeys
  /\ UNCHANGED <<envKeys, registered, secretVars>>

RegistrationSucceeded(resp) ==
  ~resp.err /\ resp.status \in {200, 201} /\ resp.body = "json"

\* Faulty variant of OAuthRegister: the client secret is stored as received.
OAuthRegister_PlaintextSecret(resp) ==
  /\ pc = "register"
  /\ LET g == GetClientIDSecret(resp)
         request == [op |-> "GetClientIDSecret", username |-> username,
                     password |-> password,
                     url |-> GetRegistrationEndpointOfEnv(environment),
                     auth |-> GetBase64EncodedCredentials(username, password),
                     resp |-> resp]
         encryptedClientSecret == g.clientSecret
         envKeysRec == EnvKeys(g.clientID, encryptedClientSecret, username)
     IN
     IF g.exit.exited
     THEN /\ pc' = "exited"
          /\ exitReason' = g.exit.reason
          /\ calls' = Append(calls, request)
          /\ UNCHANGED <<envKeys, registered, clientID, clientSecret, regErr>>
     ELSE /\ pc' = "token"
          /\ clientID' = g.clientID
          /\ clientSecret' = g.clientSecret
          /\ regErr' = g.err
          /\ envKeys' = AddNewEnvToKeysFile(environment, envKeysRec, envKeys)
          /\ calls' = calls \o <<request,
                         [op |-> "AddNewEnvToKeysFile", env |-> environment,
                          envKeys |-> envKeysRec]>>
          /\ registered' = IF RegistrationSucceeded(resp)
                           THEN registered \cup {environment}
                           ELSE registered
          /\ UNCHANGED exitReason
  /\ UNCHANGED <<invocations, mode, environment, flagUsername, flagPassword,
                 username, password, prompts, result, keysAtStart,
                 secretVars>>

\* ExecutePreCommandWithOAuth, first use: GetClientIDSecret, then the record
\* is written to the credential file.
OAuthRegister(resp) ==
  /\ pc = "register"
  /\ LET g == GetClientIDSecret(resp)
         request == [op |-> "GetClientIDSecret", username |-> username,
                     password |-> password,
                     url |-> GetRegistrationEndpointOfEnv(environment),
                     auth |-> GetBase64EncodedCredentials(username, password),
                     resp |-> resp]
         encryptedClientSecret == Encrypt(GetMD5Hash(password), g.clientSecret)
         envKeysRec == EnvKeys(g.clientID, encryptedClientSecret, username)
     IN
     IF g.exit.exited
     THEN /\ pc' = "exited"
          /\ exitReason' = g.exit.reason
          /\ calls' = Append(calls, request)
          /\ UNCHANGED <<envKeys, registered, clientID, clientSecret, regErr>>
     ELSE /\ pc' = "token"
          /\ clientID' = g.clientID
          /\ clientSecret' = g.clientSecret
          /\ regErr' = g.err
          /\ envKeys' = AddNewEnvToKeysFile(environment, envKeysRec, envKeys)
          /\ calls' = calls \o <<request,
                         [op |-> "AddNewEnvToKeysFile", env |-> environment,
                          envKeys |-> envKeysRec]>>
          /\ registered' = IF RegistrationSucceeded(resp)
                           THEN registered \cup {environment}
                           ELSE registered
          /\ UNCHANGED exitReason
  /\ UNCHANGED <<invocations, mode, environment, flagUsername, flagPassword,
                 username, password, prompts, result, keysAtStart,
                 secretVars>>

\* ExecutePreCommandWithOAuth, last part: GetOAuthTokens and the return.
OAuthToken(resp) ==
  /\ pc = "token"
  /\ LET t == GetOAuthTokens(resp)
         request == [op |-> "GetOAuthTokens", username |-> username,
                     password |-> password,
                     url |-> GetTokenEndpointOfEnv(environment),
                     auth |-> GetBase64EncodedCredentials(clientID, clientSecret),
                     resp |-> resp]
     IN
     /\ calls' = Append(calls, request)
     /\ IF t.exit.exited
        THEN /\ pc' = "exited"
             /\ exitReason' = t.exit.reason
             /\ UNCHANGED result
        ELSE /\ pc' = "returned"
             /\ result' = Returned(t.access_token,
                                   GetAPIMEndpointOfEnv(environment), "nil")
             /\ UNCHANGED exitReason
  /\ UNCHANGED <<envKeys, registered, invocations, mode, environment,
                 flagUsername, flagPassword, username, password, clientID,
                 clientSecret, regErr, prompts, keysAtStart, secretVars>>

----------------------------------------------------------------------------
\* The secret encryption pipeline (mi/utils/utils.go).

UpperCase == <<"A", "B", "C", "D", "E", "F", "G", "H", "I", "J", "K", "L", "M",
               "N", "O", "P", "Q", "R", "S", "T", "U", "V", "W", "X", "Y", "Z">>
LowerCase == <<"a", "b", "c", "d", "e", "f", "g", "h", "i", "j", "k", "l", "m",
               "n", "o", "p", "q", "r", "s", "t", "u", "v", "w", "x", "y", "z">>

ToLower(c) ==
  IF \E i \in 1..Len(UpperCase) : UpperCase[i] = c
  THEN LowerCase[CHOOSE i \in 1..Len(UpperCase) : UpperCase[i] = c]
  ELSE c

\* strings.EqualFold
EqualFold(s, t) ==
  /\ Len(s) = Len(t)
  /\ \A i \in 1..Len(s) : ToLower(s[i]) = ToLower(t[i])

LabelConsole == <<"c", "o", "n", "s", "o", "l", "e">>
LabelFile == <<"f", "i", "l", "e">>
LabelK8 == <<"k", "8">>
LabelPKCS1 == <<"R", "S", "A", "/", "E", "C", "B", "/",
                "P", "K", "C", "S", "1", "P", "a", "d", "d", "i", "n", "g">>
LabelOAEP == <<"R", "S", "A", "/", "E", "C", "B", "/", "O", "A", "E", "P",
               "W", "i", "t", "h", "S", "H", "A", "1", "A", "n", "d",
               "M", "G", "F", "1", "P", "a", "d", "d", "i", "n", "g">>

IsConsole(outputType) == EqualFold(outputType, LabelConsole)
IsFile(outputType) == EqualFold(outputType, LabelFile)
\* Faulty variant of IsK8: the label is compared as written.
IsK8_CaseSensitive(outputType) == outputType = LabelK8
IsK8(outputType) == EqualFold(outputType, LabelK8)
\* Faulty variant of IsPKCS1Encryption: the label is compared as written.
IsPKCS1Encryption_CaseSensitive(algorithm) == algorithm = LabelPKCS1
IsPKCS1Encryption(algorithm) == EqualFold(algorithm, LabelPKCS1)
IsOAEPEncryption(algorithm) == EqualFold(algorithm, LabelOAEP)

\* IsMapWithNonEmptyValues: false if there is an empty value
IsMapWithNonEmptyValues(inputs) ==
  \A key \in DOMAIN inputs : Len(TrimSpace(inputs[key])) # 0

NoSecrets == [a \in {} |-> Empty]

\* getPlainTextSecrets
getPlainTextSecrets(secretConfig) ==
  IF IsFile(secretConfig.InputType)
  THEN secretConfig.InputFile
  ELSE [a \in {secretConfig.PlainTextAlias} |-> secretConfig.PlainTextSecretText]

\* getEncryptionKey, from what the keystore named by the properties holds:
\* the public key, a returned error, or a panic of the type assertion that
\* runs before the parse error is looked at.
getEncryptionKey(keyStore) ==
  IF keyStore.state \in {"NoFile", "BadStorePassword"}
  THEN [key |-> "nil", err |-> "Reading Key Store", panic |-> FALSE]
  ELSE IF keyStore.state \in {"NoAlias", "BadKeyPassword"}
       THEN [key |-> "nil", err |-> "Reading Key Entry", panic |-> FALSE]
       ELSE IF keyStore.state \in {"NotPKCS8", "NotRSA"}
            THEN [key |-> "nil", err |-> "none", panic |-> TRUE]
            ELSE [key |-> keyStore.size, err |-> "nil", panic |-> FALSE]

\* sha1.Size
SHA1Size == 20
\* the padding overhead of PKCS #1 v1.5 encryption
PKCS1Overhead == 11

CipherText(scheme, plainText, rnd) ==
  Base64(<<[scheme |-> scheme, plainText |-> plainText, rnd |-> rnd]>>)

\* encryptOAEP: rsa.EncryptOAEP(sha1, rand, key, plainText, nil), base64
encryptOAEP(key, plainText, rnd) ==
  IF Len(plainText) > key - 2 * SHA1Size - 2
  THEN [text |-> Empty, err |-> "message too long"]
  ELSE [text |-> CipherText("OAEP", plainText, rnd), err |-> "nil"]

\* encryptPKCS1v15: rsa.EncryptPKCS1v15(rand, key, plainText), base64
encryptPKCS1v15(key, plainText, rnd) ==
  IF Len(plainText) > key - PKCS1Overhead
  THEN [text |-> Empty, err |-> "message too long"]
  ELSE [text |-> CipherText("PKCS1v15", plainText, rnd), err |-> "nil"]

encryptFunction(name, key, plainText, rnd) ==
  IF name = "encryptPKCS1v15" THEN encryptPKCS1v15(key, plainText, rnd)
  ELSE encryptOAEP(key, plainText, rnd)

\* the sink EncryptSecrets writes to
SinkOf(outputType) ==
  IF IsK8(outputType) THEN "printSecretsToYamlFile"
  ELSE IF IsFile(outputType) THEN "printSecretsToPropertiesFile"
       ELSE "printSecretsToConsole"

\* Inputs of one EncryptSecrets call.
SecretAliases == {"db", "api"}
SecretTexts == {Empty, <<" ">>, <<"s">>, <<"s", "e", "c">>}
KeyStores ==
  [state : {"NoFile", "BadStorePassword", "NoAlias", "BadKeyPassword",
            "NotPKCS8", "NotRSA"}, size : {0}]
  \cup [state : {"RSA"}, size : {44, 12}]
\* the PKCS1 label in lower case, a label that is no algorithm's
LowerCasePKCS1 == <<"r", "s", "a", "/", "e", "c", "b", "/",
                    "p", "k", "c", "s", "1", "p", "a", "d", "d", "i", "n", "g">>
UnknownAlgorithm == <<"P", "K", "C", "S", "1">>
Algorithms == {LabelPKCS1, LowerCasePKCS1, LabelOAEP, UnknownAlgorithm, Empty}
OutputTypes == {LabelConsole, <<"C", "o", "n", "s", "o", "l", "e">>,
                LabelFile, <<"F", "I", "L", "E">>,
                LabelK8, <<"K", "8">>, Empty}
InputFiles ==
  UNION {[A -> SecretTexts] : A \in SUBSET SecretAliases}
RandomBytes == {"r1", "r2"}

\* the command sets either the properties file or the alias and its text
SecretInputs ==
  [InputType : {LabelFile, <<"F", "i", "l", "e">>}, InputFile : InputFiles,
   PlainTextAlias : {""}, PlainTextSecretText : {Empty}]
  \cup [InputType : {LabelConsole}, InputFile : {NoSecrets},
        PlainTextAlias : {"db"}, PlainTextSecretText : SecretTexts]

SecretConfigs ==
  {[OutputType |-> o, Algorithm |-> a, InputType |-> i.InputType,
    InputFile |-> i.InputFile, PlainTextAlias |-> i.PlainTextAlias,
    PlainTextSecretText |-> i.PlainTextSecretText] :
     o \in OutputTypes, a \in Algorithms, i \in SecretInputs}

\* EncryptSecrets up to the call of encrypt: the key, the plain text secrets
\* and the choice of the encryption function.
EncryptSecrets(keyStore, secretConfig) ==
  /\ sPc = "idle"
  /\ sConfig' = [keyStore |-> keyStore, secretConfig |-> secretConfig]
  /\ LET k == getEncryptionKey(keyStore) IN
     IF k.panic
     THEN /\ sPc' = "panicked"
          /\ UNCHANGED <<sFunc, sPlain, sTodo, sResult>>
     ELSE IF k.err # "nil"
          THEN /\ sPc' = "done"
               /\ sResult' = k.err
               /\ UNCHANGED <<sFunc, sPlain, sTodo>>
          ELSE /\ sPc' = "encrypt"
               /\ sPlain' = getPlainTextSecrets(secretConfig)
               /\ sTodo' = DOMAIN getPlainTextSecrets(secretConfig)
               /\ sFunc' = IF IsPKCS1Encryption(secretConfig.Algorithm)
                           THEN "encryptPKCS1v15"
                           ELSE "encryptOAEP"
               /\ UNCHANGED sResult
  /\ UNCHANGED <<sCrypto, sEncrypted, sSinks, resolverVars>>

\* Faulty variant of encrypt: an alias that fails to encrypt is left out and
\* the loop goes on with the others.
encrypt_SkipsFailed(alias, rnd) ==
  /\ sPc = "encrypt"
  /\ alias \in sTodo
  /\ LET e == encryptFunction(sFunc, sConfig.keyStore.size, sPlain[alias], rnd) IN
     /\ sCrypto' = Append(sCrypto, [fn |-> sFunc, alias |-> alias,
                                    plainText |-> sPlain[alias]])
     /\ sEncrypted' = IF e.err # "nil"
                      THEN sEncrypted
                      ELSE [a \in (DOMAIN sEncrypted) \cup {alias} |->
                              IF a = alias THEN e.text ELSE sEncrypted[a]]
     /\ sTodo' = sTodo \ {alias}
  /\ UNCHANGED <<sPc, sResult, sConfig, sFunc, sPlain, sSinks, resolverVars>>

\* encrypt, one round of its loop over the map, in the order the runtime
\* happens to range over it; an error ends EncryptSecrets.
encrypt(alias, rnd) ==
  /\ sPc = "encrypt"
  /\ alias \in sTodo
  /\ LET e == encryptFunction(sFunc, sConfig.keyStore.size, sPlain[alias], rnd) IN
     /\ sCrypto' = Append(sCrypto, [fn |-> sFunc, alias |-> alias,
                                    plainText |-> sPlain[alias]])
     /\ IF e.err # "nil"
        THEN /\ sPc' = "done"
             /\ sResult' = e.err
             /\ sEncrypted' = NoSecrets
             /\ sTodo' = {}
        ELSE /\ sEncrypted' = [a \in (DOMAIN sEncrypted) \cup {alias} |->
                                 IF a = alias THEN e.text ELSE sEncrypted[a]]
             /\ sTodo' = sTodo \ {alias}
             /\ UNCHANGED <<sPc, sResult>>
  /\ UNCHANGED <<sConfig, sFunc, sPlain, sSinks, resolverVars>>

\* EncryptSecrets after encrypt returned no error: the sink, and return nil.
printSecrets ==
  /\ sPc = "encrypt"
  /\ sTodo = {}
  /\ sSinks' = Append(sSinks, [sink |-> SinkOf(sConfig.secretConfig.OutputType),
                               secrets |-> sEncrypted])
  /\ sResult' = "nil"
  /\ sPc' = "done"
  /\ UNCHANGED <<sConfig, sFunc, sPlain, sTodo, sCrypto, sEncrypted,
                 resolverVars>>

----------------------------------------------------------------------------

ResolverInit ==
  /\ envKeys = NoKeys
  /\ invocations = 0
  /\ pc = "idle"
  /\ mode = "none"
  /\ environment = ""
  /\ flagUsername = Empty
  /\ flagPassword = Empty
  /\ username = Empty
  /\ password = Empty
  /\ clientID = Empty
  /\ clientSecret = Empty
  /\ regErr = "nil"
  /\ prompts = << >>
  /\ calls = << >>
  /\ result = NoResult
  /\ exitReason = ""
  /\ registered = {}
  /\ keysAtStart = NoKeys

SecretsInit ==
  /\ sPc = "idle"
  /\ sConfig = "none"
  /\ sFunc = "none"
  /\ sPlain = NoSecrets
  /\ sTodo = {}
  /\ sCrypto = << >>
  /\ sEncrypted = NoSecrets
  /\ sSinks = << >>
  /\ sResult = "none"

Init == ResolverInit /\ SecretsInit

Next ==
  \/ /\ Idle
     /\ \E env \in EnvironmentNames, flagUser \in FlagUsernames,
           flagPass \in FlagPasswords, ansU \in TypedUsernames,
           ansP \in TypedPasswords :
          ExecutePreCommandWithBasicAuth(env, flagUser, flagPass, ansU, ansP)
  \/ /\ Idle
     /\ \E env \in EnvironmentNames, flagUser \in FlagUsernames,
           flagPass \in FlagPasswords, ansU \in TypedUsernames,
           ansP \in TypedPasswords :
          ExecutePreCommandWithOAuth(env, flagUser, flagPass, ansU, ansP)
  \/ /\ pc = "register"
     /\ \E resp \in RegistrationResponses : OAuthRegister(resp)
  \/ /\ pc = "token"
     /\ \E resp \in TokenResponses : OAuthToken(resp)

Spec == Init /\ [][Next]_vars

NextSecrets ==
  \/ /\ sPc = "idle"
     /\ \E keyStore \in KeyStores, secretConfig \in SecretConfigs :
          EncryptSecrets(keyStore, secretConfig)
  \/ \E alias \in sTodo, rnd \in RandomBytes : encrypt(alias, rnd)
  \/ printSecrets

SpecSecrets == Init /\ [][NextSecrets]_vars

----------------------------------------------------------------------------
\* Properties of the credential resolver.  The variables describe the
\* command started last: its arguments, its locals, the prompts it showed,
\* its requests and store writes, and how it ended.

Running == mode # "none"
Known == EnvExistsInMainConfigFile(environment)
Cached == environment \in DOMAIN keysAtStart
CachedUsername == keysAtStart[environment].username

CallsOf(op) == {i \in 1..Len(calls) : calls[i].op = op}
RegistrationRequests == CallsOf("GetClientIDSecret")
TokenRequests == CallsOf("GetOAuthTokens")
NoRequest == RegistrationRequests = {} /\ TokenRequests = {}

HasPrompt(kind) == \E i \in 1..Len(prompts) : prompts[i].kind = kind
PromptAnswer(kind) ==
  prompts[CHOOSE i \in 1..Len(prompts) : prompts[i].kind = kind].answer

FlagUsernameMismatch ==
  Cached /\ flagUsername # Empty /\ flagUsername # CachedUsername

\* C1: with a cached record for the environment, in both modes, a non-empty
\* flag username that differs from the cached username ends the command in
\* the fatal CredentialMismatch exit, and the command has issued no
\* registration and no token request.
C1_MismatchIsFatalWithoutRequest ==
  (Running /\ FlagUsernameMismatch) =>
     /\ pc = "exited"
     /\ exitReason = "CredentialMismatch"
     /\ NoRequest

C1_Witness ==
  /\ mode = "oauth"
  /\ FlagUsernameMismatch
  /\ pc = "exited"
  /\ exitReason = "CredentialMismatch"

Unauthorized(i) == ~calls[i].resp.err /\ calls[i].resp.status = 401

\* C2: in OAuth mode on first use of an environment, a registration request
\* answered with 401 ends the command with the authentication failure exit,
\* and no token request is issued by that command.
C2_Registration401Aborts ==
  \A i \in RegistrationRequests :
     Unauthorized(i) =>
        /\ pc = "exited"
        /\ exitReason = "Incorrect Username/Password combination."
        /\ TokenRequests = {}
        /\ ~Cached

C2_Witness ==
  /\ mode = "oauth"
  /\ pc = "exited"
  /\ \E i \in RegistrationRequests : Unauthorized(i)

RegistrationRefused(i) ==
  ~calls[i].resp.err /\ calls[i].resp.status \notin {200, 201}

\* C3: after a registration response whose status is neither 200 nor 201,
\* the command issues no token request, does not return a success result,
\* and makes no second registration request.
C3_RefusedRegistrationIsFatal ==
  \A i \in RegistrationRequests :
     RegistrationRefused(i) =>
        /\ TokenRequests = {}
        /\ ~(pc = "returned" /\ result.err = "nil")
        /\ Cardinality(RegistrationRequests) = 1

\* C4: a record exists for an environment only if a registration request
\* for it completed successfully (200 or 201 with a parsed client id and
\* secret).
C4_RecordOnlyAfterSuccessfulRegistration ==
  \A e \in DOMAIN envKeys : e \in registered

TokenRefused(i) == ~calls[i].resp.err /\ calls[i].resp.status # 200

\* C6: an OAuth command issues at most one token request; if its response
\* status is not 200 the process exits and the command returns nothing to
\* its caller: no access token, no success result, no retry.
C6_TokenRequestOnceAndFatal ==
  /\ Cardinality(TokenRequests) <= 1
  /\ \A i \in TokenRequests :
        TokenRefused(i) => pc = "exited" /\ result = NoResult

C6_Witness ==
  /\ mode = "oauth"
  /\ pc = "exited"
  /\ \E i \in TokenRequests : TokenRefused(i)

\* C7: for an environment name missing from the main configuration (the
\* empty name included), both modes return a non-nil error with an empty
\* credential or token and an empty endpoint; no prompt was shown, no request
\* issued, and the credential file is as the command found it.
C7_UnknownEnvironmentIsAnError ==
  (Running /\ ~Known) =>
     /\ pc = "returned"
     /\ result.err \notin {"nil", "none"}
     /\ result.value = Empty
     /\ result.endpoint = ""
     /\ prompts = << >>
     /\ calls = << >>
     /\ envKeys = keysAtStart

C7_Witness ==
  /\ mode = "oauth"
  /\ environment = ""
  /\ pc = "returned"
  /\ envKeys # NoKeys

FirstUse == Running /\ Known /\ ~Cached

\* C8, as claimed: on first use of a known environment the username is the
\* flag username if given and otherwise the prompted one, the password is
\* the flag password if given and otherwise the prompted one, and the
\* password is prompted for only when the flag password is empty.
C8_FlagPasswordAlwaysUsed ==
  FirstUse =>
     /\ username = IF flagUsername # Empty THEN flagUsername
                   ELSE IF HasPrompt("username")
                        THEN TrimSpace(PromptAnswer("username"))
                        ELSE Empty
     /\ HasPrompt("password") => flagPassword = Empty
     /\ password = IF flagPassword # Empty THEN flagPassword
                   ELSE IF HasPrompt("password") THEN PromptAnswer("password")
                        ELSE Empty

\* C8, amended: on first use of a known environment the username is the
\* flag username if given and otherwise the prompted one with the white
\* space around it trimmed; the password is the flag password only if both
\* flags are given, and otherwise the prompted one: with an empty flag
\* username both username and password are prompted for, whatever the flag
\* password.
C8_FlagPasswordUsedWithFlagUsername ==
  FirstUse =>
     /\ HasPrompt("username") <=> flagUsername = Empty
     /\ username = IF flagUsername # Empty THEN flagUsername
                   ELSE IF HasPrompt("username")
                        THEN TrimSpace(PromptAnswer("username"))
                        ELSE Empty
     /\ HasPrompt("password") <=> (flagUsername = Empty \/ flagPassword = Empty)
     /\ password = IF flagUsername # Empty /\ flagPassword # Empty
                   THEN flagPassword
                   ELSE IF HasPrompt("password") THEN PromptAnswer("password")
                        ELSE Empty

C8_Witness ==
  /\ FirstUse
  /\ flagUsername = Empty
  /\ flagPassword # Empty
  /\ HasPrompt("password")
  /\ password # flagPassword
  /\ username # PromptAnswer("username")

\* C9: with a cached record and a flag username that is empty or equal to
\* the cached username, the username is the cached one and no username
\* prompt occurs; the password is the flag password if it is non-empty and
\* otherwise the prompted one.
C9_CachedUsernameFlagOrPromptedPassword ==
  (Running /\ Known /\ Cached /\ ~FlagUsernameMismatch) =>
     /\ username = CachedUsername
     /\ ~HasPrompt("username")
     /\ HasPrompt("password") <=> flagPassword = Empty
     /\ password = IF flagPassword # Empty THEN flagPassword
                   ELSE IF HasPrompt("password") THEN PromptAnswer("password")
                        ELSE Empty

C9_Witness ==
  /\ mode = "basic"
  /\ Cached
  /\ flagUsername = Empty
  /\ flagPassword # Empty
  /\ pc = "returned"
  /\ password = flagPassword

StoredSecret == keysAtStart[environment].clientSecret

\* an OAuth command on a cached record, past the username comparison, with a
\* password other than the one the record was written with
WrongPassword ==
  /\ mode = "oauth"
  /\ Cached
  /\ ~FlagUsernameMismatch
  /\ GetMD5Hash(password) # SealedKey(StoredSecret)

TokenRequestFailed(i) == calls[i].resp.err \/ TokenRefused(i)

WrongPasswordGoesToServer ==
  /\ clientID = keysAtStart[environment].clientID
  /\ clientSecret # SealedText(StoredSecret)
  /\ RegistrationRequests = {}
  /\ envKeys = keysAtStart
  /\ pc \in {"token", "returned", "exited"}
  /\ pc = "token" => calls = << >>
  /\ pc # "token" =>
        /\ Cardinality(TokenRequests) = 1
        /\ \A i \in TokenRequests :
              /\ calls[i].auth = GetBase64EncodedCredentials(clientID, clientSecret)
              /\ calls[i].password = password
              /\ pc = "exited" <=> TokenRequestFailed(i)

\* C10, as claimed: a wrong password causes no local failure; the stored
\* secret is decrypted, the token request is issued with the resulting
\* garbage client credentials, and the command fails only if and when the
\* authorization server answers the token request with a status other
\* than 200.
C10_FailsOnlyOnRefusedToken ==
  WrongPassword =>
     /\ WrongPasswordGoesToServer
     /\ pc = "exited" => \A i \in TokenRequests : TokenRefused(i)

\* C10, amended: a wrong password causes no local failure; the stored secret
\* is decrypted, the token request is issued with the resulting garbage
\* client credentials, and the command fails only once that request has
\* been issued: when the server answers it with a status other than 200, or
\* when the request itself fails in transport.
C10_FailsOnlyAtTokenRequest ==
  WrongPassword => WrongPasswordGoesToServer

C10_Witness ==
  /\ WrongPassword
  /\ pc = "exited"
  /\ \E i \in TokenRequests : calls[i].resp.status = 401
  /\ SealedText(StoredSecret) = ServerClientSecret

----------------------------------------------------------------------------
\* Properties of the secret encryption pipeline.

\* C5: for a plain text mapping with an empty or whitespace-only value,
\* EncryptSecrets ends with an error before any call of the encryption
\* function and before anything is written to a sink.
C5_EmptyValueRejectedBeforeEncryption ==
  (sPc # "idle" /\ sPc # "panicked"
     /\ ~IsMapWithNonEmptyValues(getPlainTextSecrets(sConfig.secretConfig))) =>
        /\ sCrypto = << >>
        /\ sSinks = << >>
        /\ sPc = "done" => sResult # "nil"

----------------------------------------------------------------------------
\* The two modes side by side.

\* how the command started last ended its resolution
ResolutionOutcome ==
  IF pc = "returned" /\ result.err # "nil" THEN "error"
  ELSE IF pc = "exited" /\ exitReason = "CredentialMismatch" THEN "exit"
       ELSE "ok"

\* the resolution of the command started last is the one r
SameResolution(r) ==
  /\ r.outcome = ResolutionOutcome
  /\ r.prompts = prompts
  /\ r.username = username
  /\ r.password = password

\* C11: on the same environment, flags, credential file and typed answers,
\* basic-auth mode and OAuth mode resolve alike: the same unknown
\* environment or mismatch failure, the same prompts in the same order, the
\* same username and password.  They differ in the last step only: basic-auth
\* mode returns base64(username:password), with no request and no store
\* write; OAuth mode goes on to registration and token exchange.
C11_ModesResolveAlike ==
  Running =>
     /\ \A ansU \in TypedUsernames, ansP \in TypedPasswords :
           BasicAuthResolve(environment, flagUsername, flagPassword,
                            keysAtStart, ansU, ansP)
           = OAuthResolve(environment, flagUsername, flagPassword,
                          keysAtStart, ansU, ansP)
     /\ mode = "basic" =>
           /\ \E ansU \in TypedUsernames, ansP \in TypedPasswords :
                 SameResolution(OAuthResolve(environment, flagUsername,
                                  flagPassword, keysAtStart, ansU, ansP))
           /\ calls = << >>
           /\ envKeys = keysAtStart
           /\ ResolutionOutcome = "ok" =>
                 /\ pc = "returned"
                 /\ result.value = Base64(username \o <<":">> \o password)
     /\ mode = "oauth" =>
           /\ \E ansU \in TypedUsernames, ansP \in TypedPasswords :
                 SameResolution(BasicAuthResolve(environment, flagUsername,
                                  flagPassword, keysAtStart, ansU, ansP))
           /\ ResolutionOutcome # "ok" => calls = << >>
           /\ (ResolutionOutcome = "ok" /\ pc = "returned") =>
                 TokenRequests # {}

C11_Witness ==
  /\ mode = "oauth"
  /\ FirstUse
  /\ flagUsername = Empty
  /\ Len(prompts) = 2
  /\ username # PromptAnswer("username")
  /\ pc = "returned"
  /\ RegistrationRequests # {}
  /\ TokenRequests # {}

----------------------------------------------------------------------------
\* More properties of the secret encryption pipeline.

SecretConfigOfCall == sConfig.secretConfig
Started == sPc # "idle"
Succeeded == sPc = "done" /\ sResult = "nil"

\* the spellings of the PKCS1 label among the algorithm labels
PKCS1Spellings == {LabelPKCS1, LowerCasePKCS1}

FunctionFor(algorithm) ==
  IF algorithm \in PKCS1Spellings THEN "encryptPKCS1v15" ELSE "encryptOAEP"

SchemeOf(fn) == IF fn = "encryptPKCS1v15" THEN "PKCS1v15" ELSE "OAEP"

\* C12: EncryptSecrets encrypts every secret with the PKCS1v15 function
\* exactly when the algorithm label is "RSA/ECB/PKCS1Padding" in any case,
\* and with the OAEP function for any other label, the empty and the
\* unrecognized ones included; one call never uses both.
C12_AlgorithmLabelSelectsFunction ==
  Started =>
     /\ \A i \in 1..Len(sCrypto) :
           sCrypto[i].fn = FunctionFor(SecretConfigOfCall.Algorithm)
     /\ \A a \in DOMAIN sEncrypted :
           sEncrypted[a][2].scheme =
              SchemeOf(FunctionFor(SecretConfigOfCall.Algorithm))

C12_Witness ==
  /\ Succeeded
  /\ SecretConfigOfCall.Algorithm = LowerCasePKCS1
  /\ Len(sCrypto) = 2
  /\ \A i \in 1..Len(sCrypto) : sCrypto[i].fn = "encryptPKCS1v15"

K8Spellings == {LabelK8, <<"K", "8">>}
FileSpellings == {LabelFile, <<"F", "I", "L", "E">>}
ConsoleSpellings == {LabelConsole, <<"C", "o", "n", "s", "o", "l", "e">>}

\* C13: a successful EncryptSecrets call writes the encrypted mapping to
\* exactly one sink: the manifest for the label "k8", the properties file for
\* "file", the console for "console", in any case; no call writes to two
\* sinks, and the mapping written has exactly the aliases of the plain text
\* mapping.
C13_OneSinkByOutputLabel ==
  /\ Len(sSinks) <= 1
  /\ Succeeded =>
        /\ Len(sSinks) = 1
        /\ sSinks[1].sink \in {"printSecretsToYamlFile",
                               "printSecretsToPropertiesFile",
                               "printSecretsToConsole"}
        /\ SecretConfigOfCall.OutputType \in K8Spellings =>
              sSinks[1].sink = "printSecretsToYamlFile"
        /\ SecretConfigOfCall.OutputType \in FileSpellings =>
              sSinks[1].sink = "printSecretsToPropertiesFile"
        /\ SecretConfigOfCall.OutputType \in ConsoleSpellings =>
              sSinks[1].sink = "printSecretsToConsole"
        /\ DOMAIN sSinks[1].secrets = DOMAIN sPlain
        /\ DOMAIN sPlain = DOMAIN getPlainTextSecrets(SecretConfigOfCall)

C13_Witness ==
  /\ Succeeded
  /\ SecretConfigOfCall.OutputType = <<"K", "8">>
  /\ sSinks[1].sink = "printSecretsToYamlFile"
  /\ DOMAIN sSinks[1].secrets = SecretAliases

\* the aliases of the call whose text does not fit the key under the chosen
\* function
Unencryptable ==
  IF sPc \in {"encrypt", "done"} /\ sFunc # "none"
  THEN {a \in DOMAIN sPlain :
          \A rnd \in RandomBytes :
             encryptFunction(sFunc, sConfig.keyStore.size, sPlain[a], rnd).err
                # "nil"}
  ELSE {}

\* C14: when one alias of the call fails to encrypt, EncryptSecrets returns
\* that error and writes nothing: no sink is called and the aliases that did
\* encrypt are dropped, whatever the order the aliases were taken in.
C14_EncryptionFailureEmitsNothing ==
  Unencryptable # {} =>
     /\ sSinks = << >>
     /\ sPc = "done" =>
           /\ sResult = "message too long"
           /\ sEncrypted = NoSecrets
           /\ sCrypto[Len(sCrypto)].alias \in Unencryptable
           /\ \A i \in 1..(Len(sCrypto) - 1) :
                 sCrypto[i].alias \notin Unencryptable

C14_Witness ==
  /\ sPc = "done"
  /\ sResult = "message too long"
  /\ Len(sCrypto) = 2
  /\ sCrypto[1].alias \notin Unencryptable
  /\ sCrypto[2].alias \in Unencryptable
  /\ sSinks = << >>

KeyStoreFailed == Started /\ sConfig.keyStore.state # "RSA"

\* C15: every keystore failure (no file, bad store password, no alias, bad
\* key password, a key entry that is not PKCS#8, a key that is not RSA) ends
\* EncryptSecrets with a returned error, never with a crash, and no secret
\* is collected, encrypted or written.
C15_KeyStoreFailureIsReturnedError ==
  KeyStoreFailed =>
     /\ sPc = "done"
     /\ sResult \notin {"nil", "none"}
     /\ sPlain = NoSecrets
     /\ sCrypto = << >>
     /\ sSinks = << >>

----------------------------------------------------------------------------
\* The credential file across commands.

Passwords == FlagPasswords \cup TypedPasswords
\* what GetClientIDSecret can hand back as the client secret
ClientSecrets == {GetClientIDSecret(resp).clientSecret : resp \in RegistrationResponses}
Persisted == CallsOf("AddNewEnvToKeysFile")
Fields == {"clientID", "clientSecret", "username"}

\* C16: after any sequence of commands, the secret field of every record of
\* the credential file is the client secret (as GetClientIDSecret returned
\* it to the command that wrote the record) encrypted under the hash of the
\* password of that command; no record holds the client secret in plain
\* text, a password or a derived key.
C16_StoredSecretIsEncrypted ==
  /\ \A e \in DOMAIN envKeys :
        /\ \E p \in Passwords, c \in ClientSecrets :
              envKeys[e].clientSecret = Encrypt(GetMD5Hash(p), c)
        /\ envKeys[e].clientSecret \notin ClientSecrets
        /\ envKeys[e].clientSecret \notin Passwords
        /\ \A p \in Passwords, f \in Fields : envKeys[e][f] # GetMD5Hash(p)
  /\ \A i \in Persisted :
        /\ i > 1
        /\ calls[i - 1].op = "GetClientIDSecret"
        /\ calls[i - 1].password = password
        /\ calls[i].envKeys.clientSecret =
              Encrypt(GetMD5Hash(password),
                      GetClientIDSecret(calls[i - 1].resp).clientSecret)
        /\ envKeys[calls[i].env] = calls[i].envKeys

C16_Witness ==
  /\ mode = "oauth"
  /\ Persisted # {}
  /\ environment \in DOMAIN envKeys
  /\ envKeys[environment].clientSecret =
        Encrypt(GetMD5Hash(password), ServerClientSecret)
  /\ invocations = 2
  /\ \E e \in DOMAIN envKeys : e # environment

CachedPath == mode = "oauth" /\ Cached
FirstUsePath == mode = "oauth" /\ ~Cached /\ Known

\* C17: an OAuth command for an environment with a record sends no
\* registration request, leaves the credential file as it was (no
\* AddNewEnvToKeysFile, whatever the token request ends in) and sends the
\* token request with the stored client identifier; registration and the
\* write of the record happen only without a record, in the order
\* registration request, record written, token request.
C17_CachedRecordIsOnlyRead ==
  /\ CachedPath =>
        /\ RegistrationRequests = {}
        /\ Persisted = {}
        /\ envKeys = keysAtStart
        /\ \A i \in TokenRequests :
              /\ i = 1
              /\ clientID = GetClientIDOfEnv(environment, keysAtStart)
              /\ calls[i].auth = GetBase64EncodedCredentials(
                    GetClientIDOfEnv(environment, keysAtStart), clientSecret)
        /\ (pc \in {"returned", "exited"} /\ ~FlagUsernameMismatch) =>
              Cardinality(TokenRequests) = 1
  /\ (RegistrationRequests # {} \/ Persisted # {} \/ envKeys # keysAtStart) =>
        FirstUsePath
  /\ FirstUsePath =>
        /\ RegistrationRequests \subseteq {1}
        /\ Persisted \subseteq {2}
        /\ TokenRequests \subseteq {3}
        /\ Persisted # {} => RegistrationRequests # {}
        /\ TokenRequests # {} => Persisted # {}
        /\ envKeys # keysAtStart <=> Persisted # {}

C17_Witness ==
  /\ CachedPath
  /\ pc = "exited"
  /\ GetMD5Hash(password) = SealedKey(StoredSecret)
  /\ clientID = ServerClientID
  /\ \E i \in TokenRequests : calls[i].resp.err
  /\ envKeys = keysAtStart

====
